---- MODULE Spec2Model ----
(***************************************************************************)
(* Model of grpc-sys/build.rs: one run of the build script's main().       *)
(* The run is a straight-line program; pc is its position, the other       *)
(* variables are what it has printed for cargo, what it has configured on  *)
(* the cmake Config and the cc Build, and what it has observed of its      *)
(* surroundings (process environment, submodule directories, pkg-config).  *)
(***************************************************************************)
EXTENDS Naturals, Sequences, FiniteSets

\* Largest number of entries a submodule directory holds in the model.
MaxEntries == 1

(***************************************************************************)
(* The surroundings of the run.                                            *)
(***************************************************************************)

\* A value of the process environment not looked at yet.
Unobserved == "<unobserved>"
\* env::var outcomes other than Ok(text).
NotPresent == "<NotPresent>"
NotUnicode == "<NotUnicode>"

EnvNames == {"GRPCIO_SYS_USE_PKG_CONFIG", "CARGO_CFG_TARGET_ENV", "PROFILE"}

ToggleValues == {NotPresent, NotUnicode, "0", "1"}
TargetEnvValues == {NotPresent, NotUnicode, "gnu", "musl"}
ProfileValues == {NotPresent, NotUnicode, "debug", "release", "bench"}

\* cfg!(target_os = ..) and cfg!(target_env = "msvc") of the build script.
Platforms ==
    { [os |-> "linux", msvc |-> FALSE],
      [os |-> "macos", msvc |-> FALSE],
      [os |-> "windows", msvc |-> TRUE],
      [os |-> "windows", msvc |-> FALSE] }

\* Directory entries: a hidden placeholder and a real source file.
HiddenEntries == {".git"}
RealEntries == {"CMakeLists.txt"}
EntryNames == HiddenEntries \cup RealEntries

Contents == {s \in SUBSET EntryNames : Cardinality(s) <= MaxEntries}

\* What fs::read_dir meets at a path: nothing there, a directory that cannot
\* be listed (it is populated all the same), or a listable directory.
DirStates ==
    { [open |-> "NotFound", entries |-> {}],
      [open |-> "Denied", entries |-> RealEntries] }
    \cup { [open |-> "Ok", entries |-> c] : c \in Contents }

AllModules ==
    { "grpc",
      "grpc/third_party/zlib",
      "grpc/third_party/cares/cares",
      "grpc/third_party/address_sorting",
      "grpc/third_party/boringssl" }

NoFs == [m \in AllModules |-> [open |-> "Unread", entries |-> {}]]

\* What pkg-config knows of a library.
Versions == { <<1, 12, 0>>, <<1, 13, 0>>, <<1, 14, 0>>, <<2, 0, 0>> }
Installed ==
    { [present |-> FALSE, version |-> <<0, 0, 0>>] }
    \cup { [present |-> TRUE, version |-> v] : v \in Versions }

(***************************************************************************)
(* Pure helpers of the script.                                             *)
(***************************************************************************)

GRPC_VERSION == <<1, 13, 0>>

\* pkg-config's --atleast-version comparison.
AtLeast(v, min) ==
    \/ v[1] > min[1]
    \/ v[1] = min[1] /\ v[2] > min[2]
    \/ v[1] = min[1] /\ v[2] = min[2] /\ v[3] >= min[3]

\* PkgConfig::new().atleast_version(GRPC_VERSION).probe(library) is Ok.
ProbeOk(inst) == inst.present /\ AtLeast(inst.version, GRPC_VERSION)

\* The include path a found library reports.
IncludePathOf(library) == <<"usr", "include", library>>

\* env::var(name) on a raw environment value.
env_var(raw) ==
    IF raw = NotPresent THEN <<"Err", "NotPresent">>
    ELSE IF raw = NotUnicode THEN <<"Err", "NotUnicode">>
    ELSE <<"Ok", raw>>

\* Result::unwrap_or.
unwrap_or(r, default) == IF r[1] = "Ok" THEN r[2] ELSE default

\* get_env's match on env::var(name).
get_env(raw) ==
    LET r == env_var(raw) IN
    IF r[1] = "Ok" THEN <<"Some", r[2]>>
    ELSE IF r[2] = "NotPresent" THEN <<"None">>
    ELSE <<"Panic">>

\* Option::map_or(false, |s| s == "1").
map_or_is_1(o) == IF o[1] = "Some" THEN o[2] = "1" ELSE FALSE

\* LibraryNames with the test on the feature inverted.
LibraryNames_inverted(sec) ==
    IF ~sec THEN [c |-> "grpc", cpp |-> "grpc++"]
    ELSE [c |-> "grpc_unsecure", cpp |-> "grpc++_unsecure"]

\* (library_c, library_cpp) of main.
LibraryNames(sec) ==
    IF sec THEN [c |-> "grpc", cpp |-> "grpc++"]
    ELSE [c |-> "grpc_unsecure", cpp |-> "grpc++_unsecure"]

\* modules with boringssl pushed whatever the feature.
modules_always_boringssl(sec) ==
    << "grpc",
       "grpc/third_party/zlib",
       "grpc/third_party/cares/cares",
       "grpc/third_party/address_sorting",
       "grpc/third_party/boringssl" >>

\* The modules vector of prepare_grpc, in order.
modules(sec) ==
    << "grpc",
       "grpc/third_party/zlib",
       "grpc/third_party/cares/cares",
       "grpc/third_party/address_sorting" >>
    \o (IF sec THEN << "grpc/third_party/boringssl" >> ELSE << >>)

\* is_directory_empty skipping hidden entries.
is_directory_empty_skip_hidden(d) ==
    IF d.open = "Ok" THEN <<"Ok", d.entries \ HiddenEntries = {}>>
    ELSE <<"Err", d.open>>

\* is_directory_empty: Err when read_dir fails, else whether the iterator
\* yields no first entry.
is_directory_empty(d) ==
    IF d.open = "Ok" THEN <<"Ok", d.entries = {}>> ELSE <<"Err", d.open>>

\* is_directory_empty(module).unwrap_or(true)
ModuleUnusable(d) == unwrap_or(is_directory_empty(d), TRUE)

\* Index of the first module prepare_grpc panics on, 0 when it returns.
FirstBad(f, sec) ==
    LET ms == modules(sec)
        bad == {i \in 1..Len(ms) : ModuleUnusable(f[ms[i]])}
    IN IF bad = {} THEN 0
       ELSE CHOOSE i \in bad : \A j \in bad : i <= j

\* third_party with a directory for address_sorting.
third_party_with_address_sorting ==
    << <<"cares", "cares", "lib">>,
       <<"zlib">>,
       <<"boringssl", "ssl">>,
       <<"boringssl", "crypto">>,
       <<"address_sorting">> >>

\* The third_party vector of build_grpc, each path split at '/'.
third_party ==
    << <<"cares", "cares", "lib">>,
       <<"zlib">>,
       <<"boringssl", "ssl">>,
       <<"boringssl", "crypto">> >>

\* format!("{}/build", dst.display()), dst being cmake's output directory.
build_dir == <<"dst", "build">>

\* ProfileDir with the "bench" arm of the match left out.
ProfileDir_no_bench(raw) ==
    IF unwrap_or(env_var(raw), "debug") \in {"release"}
    THEN "Release" ELSE "Debug"

\* The match on PROFILE in build_grpc: the profile directory name.
ProfileDir(raw) ==
    IF unwrap_or(env_var(raw), "debug") \in {"bench", "release"}
    THEN "Release" ELSE "Debug"

\* The value of zlib when the link-lib lines are printed.
ZlibName(os, raw) ==
    IF os = "windows"
    THEN (IF unwrap_or(env_var(raw), "debug") \in {"bench", "release"}
          THEN "zlibstatic" ELSE "zlibstaticd")
    ELSE "z"

\* The cargo:rustc-link-search=native= lines of build_grpc, in order.
SearchPaths(os, raw) ==
    IF os = "windows"
    THEN << build_dir \o <<ProfileDir(raw)>> >>
         \o [i \in 1..Len(third_party) |->
                build_dir \o <<"third_party">> \o third_party[i]
                          \o <<ProfileDir(raw)>>]
    ELSE << build_dir >>
         \o [i \in 1..Len(third_party) |->
                build_dir \o <<"third_party">> \o third_party[i]]

\* StaticLibs with the lines in dependents-first order.
StaticLibs_dependents_first(zlib, library, library_cpp, sec) ==
    << library_cpp, library >>
    \o (IF sec THEN << "ssl", "crypto" >> ELSE << >>)
    \o << "address_sorting", "gpr", "cares", zlib >>

\* The cargo:rustc-link-lib=static= lines of build_grpc, in order.
StaticLibs(zlib, library, library_cpp, sec) ==
    << zlib, "cares", "gpr", "address_sorting", library, library_cpp >>
    \o (IF sec THEN << "ssl", "crypto" >> ELSE << >>)

\* The defines and flags build_grpc puts on the cmake Config.
CmakeConfig(sec, os, rawTargetEnv, library_cpp) ==
    [ defines |->
          (IF ~sec THEN {<<"GO_EXECUTABLE", "fake-go-nonexist">>} ELSE {})
          \cup (IF os = "macos" THEN {<<"CMAKE_MACOSX_RPATH", "ON">>} ELSE {})
          \cup (IF unwrap_or(env_var(rawTargetEnv), "") = "musl"
                THEN {<<"CMAKE_CXX_COMPILER", "g++">>} ELSE {})
          \cup {<<"gRPC_INSTALL", "false">>},
      cxxflags |-> IF os = "macos" THEN {"-stdlib=libc++"} ELSE {},
      build_target |-> library_cpp,
      uses_cxx11 |-> TRUE ]

NoConfig ==
    [defines |-> {}, cxxflags |-> {}, build_target |-> "", uses_cxx11 |-> FALSE]

\* Build::new(), and the settings main puts on it before cc.compile.
NewBuild ==
    [ defines |-> {}, includes |-> << >>, flags |-> {}, cpp |-> FALSE,
      files |-> {}, warnings_into_errors |-> FALSE ]

ShimSettings(b, plat) ==
    [ b EXCEPT
        !.cpp = TRUE,
        !.flags = IF ~plat.msvc THEN @ \cup {"-std=c++11"} ELSE @,
        !.files = @ \cup {"grpc_wrap.cc"},
        !.defines = IF plat.os = "windows"
                    THEN @ \cup {<<"_WIN32_WINNT", "0x0700">>} ELSE @,
        !.warnings_into_errors = TRUE ]

(***************************************************************************)
(* State.                                                                  *)
(***************************************************************************)
VARIABLES
    pc,             \* position of main
    secure,         \* cfg!(feature = "secure")
    platform,       \* cfg!(target_os), cfg!(target_env = "msvc")
    libs,           \* (library_c, library_cpp)
    use_pkg_config, \* use_pkg_config of main
    env,            \* process environment, as far as the run has met it
    env_reads,      \* names env::var was called on, in order
    rerun_env,      \* cargo:rerun-if-env-changed lines, in order
    rerun_changed,  \* cargo:rerun-if-changed lines, in order
    fs,             \* the submodule directories prepare_grpc met
    probes,         \* probe_library calls, in order
    pkg_metadata,   \* libraries pkg-config printed cargo metadata for
    config,         \* the cmake Config when build() is called
    cmake,          \* "none", "ok" or "failed": the cmake build
    link_search,    \* cargo:rustc-link-search=native lines, in order
    link_lib,       \* cargo:rustc-link-lib=static lines, in order
    cc,             \* the cc Build
    compile,        \* "none", "ok" or "failed": cc.compile
    panic,          \* << >>, or the panic that ended the run
    steps           \* the steps of main entered so far, in order

vars ==
    << pc, secure, platform, libs, use_pkg_config, env, env_reads, rerun_env,
       rerun_changed, fs, probes, pkg_metadata, config, cmake, link_search,
       link_lib, cc, compile, panic, steps >>

Init ==
    /\ pc = "start"
    /\ secure \in BOOLEAN
    /\ platform \in Platforms
    /\ libs = [c |-> "", cpp |-> ""]
    /\ use_pkg_config = FALSE
    /\ env = [n \in EnvNames |-> Unobserved]
    /\ env_reads = << >>
    /\ rerun_env = << >>
    /\ rerun_changed = << >>
    /\ fs = NoFs
    /\ probes = << >>
    /\ pkg_metadata = << >>
    /\ config = NoConfig
    /\ cmake = "none"
    /\ link_search = << >>
    /\ link_lib = << >>
    /\ cc = NewBuild
    /\ compile = "none"
    /\ panic = << >>
    /\ steps = << >>

(***************************************************************************)
(* The steps of main.                                                      *)
(***************************************************************************)

\* main, lines 155-165: the rerun-if-changed lines and the library names.
SelectFeatureConfig ==
    /\ pc = "start"
    /\ steps' = Append(steps, "SelectFeatureConfig")
    /\ rerun_changed' = << "grpc_wrap.c", "grpc" >>
    /\ libs' = LibraryNames(secure)
    /\ cc' = [NewBuild EXCEPT
                !.defines = IF secure THEN {<<"GRPC_SYS_SECURE", "<None>">>}
                            ELSE {}]
    /\ pc' = "select_strategy"
    /\ UNCHANGED << secure, platform, use_pkg_config, env, env_reads,
                    rerun_env, fs, probes, pkg_metadata, config, cmake,
                    link_search, link_lib, compile, panic >>

\* main, line 167: get_env("GRPCIO_SYS_USE_PKG_CONFIG").map_or(false, ..).
SelectAcquisitionStrategy ==
    /\ pc = "select_strategy"
    /\ \E raw \in ToggleValues :
        LET o == get_env(raw) IN
        /\ env' = [env EXCEPT !["GRPCIO_SYS_USE_PKG_CONFIG"] = raw]
        /\ rerun_env' = Append(rerun_env, "GRPCIO_SYS_USE_PKG_CONFIG")
        /\ env_reads' = Append(env_reads, "GRPCIO_SYS_USE_PKG_CONFIG")
        /\ IF o[1] = "Panic"
           THEN /\ panic' = <<"unrecognize env var", "GRPCIO_SYS_USE_PKG_CONFIG">>
                /\ pc' = "abort"
                /\ UNCHANGED use_pkg_config
           ELSE /\ use_pkg_config' = map_or_is_1(o)
                /\ pc' = IF map_or_is_1(o) THEN "probe_core" ELSE "prepare"
                /\ UNCHANGED panic
    /\ steps' = Append(steps, "SelectAcquisitionStrategy")
    /\ UNCHANGED << secure, platform, libs, rerun_changed, fs, probes,
                    pkg_metadata, config, cmake, link_search, link_lib, cc,
                    compile >>

\* probe_library(library, cargo_metadata) at position here; on Ok the include
\* paths are added to cc when harvest is set, and the run goes on to next.
ProbeStep(here, next, name, library, cargo_metadata, harvest) ==
    /\ pc = here
    /\ \E inst \in Installed :
        /\ probes' = Append(probes, [library |-> library,
                                     cargo_metadata |-> cargo_metadata,
                                     ok |-> ProbeOk(inst)])
        /\ IF ProbeOk(inst)
           THEN /\ pkg_metadata' = IF cargo_metadata
                                   THEN Append(pkg_metadata, library)
                                   ELSE pkg_metadata
                /\ cc' = IF harvest
                         THEN [cc EXCEPT !.includes =
                                  Append(@, IncludePathOf(library))]
                         ELSE cc
                /\ pc' = next
                /\ UNCHANGED panic
           ELSE /\ panic' = <<"can't find library via pkg-config", library>>
                /\ pc' = "abort"
                /\ UNCHANGED << pkg_metadata, cc >>
    /\ steps' = Append(steps, name)
    /\ UNCHANGED << secure, platform, libs, use_pkg_config, env, env_reads,
                    rerun_env, rerun_changed, fs, config, cmake, link_search,
                    link_lib, compile >>

\* main, lines 171-174.
ProbeCore ==
    ProbeStep("probe_core", "probe_cpp", "Probe:core", libs.c, FALSE, TRUE)

\* main, lines 175-178.
ProbeCpp ==
    ProbeStep("probe_cpp", "compile", "Probe:cpp", libs.cpp, FALSE, TRUE)

\* build_grpc, line 68: prepare_grpc().
Validate ==
    /\ pc = "prepare"
    /\ \E f \in [AllModules -> DirStates] :
        /\ fs' = f
        /\ IF FirstBad(f, secure) # 0
           THEN /\ panic' = <<"Can't find module",
                              modules(secure)[FirstBad(f, secure)]>>
                /\ pc' = "abort"
           ELSE /\ pc' = "cmake"
                /\ UNCHANGED panic
    /\ steps' = Append(steps, "Validate")
    /\ UNCHANGED << secure, platform, libs, use_pkg_config, env, env_reads,
                    rerun_env, rerun_changed, probes, pkg_metadata, config,
                    cmake, link_search, link_lib, cc, compile >>

\* build_grpc, lines 70-90: configure cmake and build.
Build ==
    /\ pc = "cmake"
    /\ \E raw \in TargetEnvValues, ok \in BOOLEAN :
        /\ env' = [env EXCEPT !["CARGO_CFG_TARGET_ENV"] = raw]
        /\ env_reads' = Append(env_reads, "CARGO_CFG_TARGET_ENV")
        /\ config' = CmakeConfig(secure, platform.os, raw, libs.cpp)
        /\ IF ok
           THEN /\ cmake' = "ok"
                /\ pc' = "emit_links"
                /\ UNCHANGED panic
           ELSE /\ cmake' = "failed"
                /\ panic' = <<"cmake build failed", "grpc">>
                /\ pc' = "abort"
    /\ steps' = Append(steps, "Build")
    /\ UNCHANGED << secure, platform, libs, use_pkg_config, rerun_env,
                    rerun_changed, fs, probes, pkg_metadata, link_search,
                    link_lib, cc, compile >>

\* build_grpc, lines 92-140: the link-search and link-lib lines, and the
\* include directory of the vendored headers.  PROFILE is whatever the
\* environment holds at this point; env::var is called on it on Windows only.
EmitLinkDirectives ==
    /\ pc = "emit_links"
    /\ \E raw \in ProfileValues :
        /\ env' = [env EXCEPT !["PROFILE"] = raw]
        /\ env_reads' = IF platform.os = "windows"
                        THEN Append(env_reads, "PROFILE") ELSE env_reads
        /\ link_search' = SearchPaths(platform.os, raw)
        /\ link_lib' = StaticLibs(ZlibName(platform.os, raw), libs.c,
                                  libs.cpp, secure)
    /\ cc' = [cc EXCEPT !.includes = Append(@, <<"grpc", "include">>)]
    /\ pc' = "compile"
    /\ steps' = Append(steps, "EmitLinkDirectives")
    /\ UNCHANGED << secure, platform, libs, use_pkg_config, rerun_env,
                    rerun_changed, fs, probes, pkg_metadata, config, cmake,
                    compile, panic >>

\* main, lines 183-195: the shim's settings and cc.compile("libgrpc_wrap.a").
CompileShim ==
    /\ pc = "compile"
    /\ cc' = ShimSettings(cc, platform)
    /\ \E ok \in BOOLEAN :
        IF ok
        THEN /\ compile' = "ok"
             /\ pc' = IF use_pkg_config THEN "final_core" ELSE "done"
             /\ UNCHANGED panic
        ELSE /\ compile' = "failed"
             /\ panic' = <<"cc failed", "libgrpc_wrap.a">>
             /\ pc' = "abort"
    /\ steps' = Append(steps, "CompileShim")
    /\ UNCHANGED << secure, platform, libs, use_pkg_config, env, env_reads,
                    rerun_env, rerun_changed, fs, probes, pkg_metadata, config,
                    cmake, link_search, link_lib >>

\* FinalizeCore with the metadata left suppressed.
FinalizeCore_no_metadata ==
    ProbeStep("final_core", "final_cpp", "FinalizeProbe:core", libs.c,
              FALSE, FALSE)

\* main, line 199.
FinalizeCore ==
    ProbeStep("final_core", "final_cpp", "FinalizeProbe:core", libs.c,
              TRUE, FALSE)

\* main, line 200.
FinalizeCpp ==
    ProbeStep("final_cpp", "done", "FinalizeProbe:cpp", libs.cpp, TRUE, FALSE)

Next ==
    \/ SelectFeatureConfig
    \/ SelectAcquisitionStrategy
    \/ ProbeCore
    \/ ProbeCpp
    \/ Validate
    \/ Build
    \/ EmitLinkDirectives
    \/ CompileShim
    \/ FinalizeCore
    \/ FinalizeCpp

Spec == Init /\ [][Next]_vars

(***************************************************************************)
(* Vocabulary of the properties.                                           *)
(***************************************************************************)

Range(s) == {s[i] : i \in 1..Len(s)}
Last(s) == s[Len(s)]
IsPrefix(s, t) == Len(s) <= Len(t) /\ \A i \in 1..Len(s) : s[i] = t[i]
\* Position of x in s, 0 when absent.
IndexOf(x, s) ==
    IF x \in Range(s) THEN CHOOSE i \in 1..Len(s) : s[i] = x ELSE 0

\* prepare_grpc has run / has panicked / has returned.
ValidationRan == fs # NoFs
ValidationFailed == panic # << >> /\ panic[1] = "Can't find module"
ValidationPassed == ValidationRan /\ ~ValidationFailed

\* The directories the validation must find populated.
RequiredDirs ==
    { "grpc", "grpc/third_party/zlib", "grpc/third_party/cares/cares",
      "grpc/third_party/address_sorting" }
    \cup (IF secure THEN {"grpc/third_party/boringssl"} ELSE {})

\* build_grpc has printed its link lines.
LinksEmitted == link_search # << >> /\ link_lib # << >>

(***************************************************************************)
(* C1                                                                      *)
(***************************************************************************)

\* C1 as stated: prepare_grpc fails if and only if a required directory is
\* missing or holds zero entries (boringssl required exactly when secure),
\* and cmake is invoked only after the validation passed.
C1_FailsIffMissingOrEmpty ==
    /\ ValidationRan =>
          (ValidationFailed <=>
              \E m \in RequiredDirs :
                  fs[m].open = "NotFound" \/ fs[m].entries = {})
    /\ cmake # "none" => ValidationPassed

\* C1 amended: prepare_grpc fails if and only if a required directory cannot
\* be listed (missing, or read_dir fails on it for any other reason) or lists
\* zero entries; the panic names the first such directory in the order of the
\* modules vector; cmake is invoked only after the validation passed.
C1_FailsIffUnlistableOrEmpty ==
    /\ ValidationRan =>
          (ValidationFailed <=>
              \E m \in RequiredDirs :
                  fs[m].open # "Ok" \/ fs[m].entries = {})
    /\ ValidationFailed =>
          /\ panic[2] \in RequiredDirs
          /\ fs[panic[2]].open # "Ok" \/ fs[panic[2]].entries = {}
    /\ cmake # "none" =>
          /\ ValidationPassed
          /\ \A m \in RequiredDirs : fs[m].open = "Ok" /\ fs[m].entries # {}

\* The validation rejected a populated boringssl directory it could not list.
C1_Witness ==
    /\ secure
    /\ ValidationFailed
    /\ panic[2] = "grpc/third_party/boringssl"
    /\ fs["grpc/third_party/boringssl"].open = "Denied"
    /\ fs["grpc/third_party/boringssl"].entries # {}

(***************************************************************************)
(* C8                                                                      *)
(***************************************************************************)

\* C8 as stated: the validation does not pass a required directory whose only
\* entries are hidden placeholders, while one with exactly one real entry
\* passes.
C8_HiddenOnlyRejected ==
    ValidationRan =>
        /\ (\E m \in RequiredDirs :
               /\ fs[m].open = "Ok"
               /\ fs[m].entries # {}
               /\ fs[m].entries \subseteq HiddenEntries)
           => ValidationFailed
        /\ (\A m \in RequiredDirs :
               /\ fs[m].open = "Ok"
               /\ Cardinality(fs[m].entries) = 1
               /\ fs[m].entries \subseteq RealEntries)
           => ValidationPassed

\* C8 amended: the validation counts every entry alike: when each required
\* directory is listable and holds either only hidden placeholder entries (at
\* least one) or exactly one real entry, the validation passes.
C8_HiddenOnlyPasses ==
    ValidationRan =>
        ((\A m \in RequiredDirs :
             /\ fs[m].open = "Ok"
             /\ \/ fs[m].entries # {} /\ fs[m].entries \subseteq HiddenEntries
                \/ Cardinality(fs[m].entries \cap RealEntries) = 1)
         => ValidationPassed)

\* The validation passed with a required directory holding a placeholder only
\* and another holding exactly one real entry.
C8_Witness ==
    /\ ValidationPassed
    /\ fs["grpc/third_party/zlib"].entries = HiddenEntries
    /\ fs["grpc"].entries = RealEntries
    /\ pc = "cmake"

(***************************************************************************)
(* C2, C9, C10: failures and the environment                               *)
(***************************************************************************)

\* Some env::var call of the run met a value that is not valid text.
DecodeFailed == \E i \in 1..Len(env_reads) : env[env_reads[i]] = NotUnicode

\* Some probe_library call did not find its library at GRPC_VERSION or above.
ProbeFailed == \E i \in 1..Len(probes) : ~probes[i].ok

\* C2 as stated: every component failure (prerequisite validation, native
\* build, system probe, shim compilation, environment decode) has put the run
\* in the fatal abort, from which no step is taken; a failed probe ahead of
\* the compilation leaves the shim uncompiled.
C2_EveryFailureAborts ==
    /\ ( \/ DecodeFailed
         \/ ValidationRan /\ \E m \in RequiredDirs :
                                 fs[m].open # "Ok" \/ fs[m].entries = {}
         \/ cmake = "failed"
         \/ ProbeFailed
         \/ compile = "failed" )
       => pc = "abort" /\ panic # << >>
    /\ (\E i \in 1..Len(probes) : ~probes[i].ok /\ ~probes[i].cargo_metadata)
       => compile = "none"
    /\ pc = "abort" => ~ENABLED Next

\* C9 as stated: for every environment variable the run reads, a value that
\* is not valid text ends the run with the decode panic; it is never taken
\* for absent or replaced by a default.
C9_UndecodableIsFatal ==
    \A i \in 1..Len(env_reads) :
        env[env_reads[i]] = NotUnicode
        => pc = "abort" /\ panic = <<"unrecognize env var", env_reads[i]>>

\* C10 as stated: every environment variable the run has read has a
\* cargo:rerun-if-env-changed line.
C10_EveryReadRecorded == Range(env_reads) \subseteq Range(rerun_env)

(***************************************************************************)
(* C3: the order of the steps                                              *)
(***************************************************************************)

\* The order of the steps as the claim lists it.
ClaimedVendoredOrder ==
    << "SelectFeatureConfig", "SelectAcquisitionStrategy", "Validate",
       "Build", "CompileShim", "EmitLinkDirectives" >>

\* The order of the steps on each path.
VendoredOrder ==
    << "SelectFeatureConfig", "SelectAcquisitionStrategy", "Validate",
       "Build", "EmitLinkDirectives", "CompileShim" >>
ProbeOrder ==
    << "SelectFeatureConfig", "SelectAcquisitionStrategy", "Probe:core",
       "Probe:cpp", "CompileShim", "FinalizeProbe:core", "FinalizeProbe:cpp" >>

\* Steps of one strategy never run under the other, and the probes are, in
\* order, core and C++ without metadata, then core and C++ with metadata.
StrategiesExclusive ==
    /\ use_pkg_config =>
          ~ValidationRan /\ cmake = "none" /\ link_search = << >>
          /\ link_lib = << >>
    /\ ~use_pkg_config => probes = << >> /\ pkg_metadata = << >>
ProbesInOrder ==
    /\ Len(probes) <= 4
    /\ \A i \in 1..Len(probes) :
          /\ probes[i].library = (IF i \in {1, 3} THEN libs.c ELSE libs.cpp)
          /\ probes[i].cargo_metadata = (i > 2)
    /\ (use_pkg_config /\ compile # "none") =>
          Len(probes) >= 2 /\ probes[1].ok /\ probes[2].ok
    /\ Len(probes) > 2 => compile = "ok"
    /\ pkg_metadata # << >> => compile = "ok"
    /\ (use_pkg_config /\ pc = "done") =>
          /\ Len(probes) = 4
          /\ pkg_metadata = << libs.c, libs.cpp >>
          /\ Last(steps) = "FinalizeProbe:cpp"

\* C3 as stated: the steps run in the listed order, the link directives come
\* only after the shim has been compiled, the other strategy's steps never
\* run, and the probes are two without metadata ahead of the compilation and
\* two with metadata at the very end.
C3_LinksAfterCompile ==
    /\ IsPrefix(steps, ClaimedVendoredOrder) \/ IsPrefix(steps, ProbeOrder)
    /\ (link_search # << >> \/ link_lib # << >> \/ pkg_metadata # << >>)
       => compile = "ok"
    /\ StrategiesExclusive
    /\ ProbesInOrder

\* C3 amended: as stated, but on the vendored path build_grpc prints the
\* link-search and link-lib lines right after the native build and before the
\* shim is compiled; only the system-probe path emits its link metadata after
\* the compilation.
C3_LinearOrder ==
    /\ IsPrefix(steps, VendoredOrder) \/ IsPrefix(steps, ProbeOrder)
    /\ (link_search # << >> \/ link_lib # << >>) => cmake = "ok"
    /\ (~use_pkg_config /\ compile # "none") => LinksEmitted
    /\ (~use_pkg_config /\ pc = "done") => steps = VendoredOrder
    /\ (use_pkg_config /\ pc = "done") => steps = ProbeOrder
    /\ StrategiesExclusive
    /\ ProbesInOrder

\* A finished system-probe run.
C3_Witness ==
    /\ pc = "done"
    /\ use_pkg_config
    /\ Len(probes) = 4
    /\ compile = "ok"

(***************************************************************************)
(* C4: library names                                                       *)
(***************************************************************************)

\* C4: once selected, the library names are (grpc, grpc++) when secure and
\* (grpc_unsecure, grpc++_unsecure) otherwise; the link-lib lines carry ssl
\* and crypto if and only if secure, and carry the selected pair.
C4_LibraryNames ==
    /\ pc # "start" =>
          /\ secure => libs.c = "grpc" /\ libs.cpp = "grpc++"
          /\ ~secure => libs.c = "grpc_unsecure" /\ libs.cpp = "grpc++_unsecure"
    /\ link_lib # << >> =>
          /\ "ssl" \in Range(link_lib) <=> secure
          /\ "crypto" \in Range(link_lib) <=> secure
          /\ secure => {"grpc", "grpc++"} \subseteq Range(link_lib)
          /\ ~secure =>
                {"grpc_unsecure", "grpc++_unsecure"} \subseteq Range(link_lib)
          /\ secure => Range(link_lib) \cap {"grpc_unsecure", "grpc++_unsecure"} = {}
          /\ ~secure => Range(link_lib) \cap {"grpc", "grpc++"} = {}

\* A finished vendored run of the secure variant.
C4_Witness ==
    /\ pc = "done"
    /\ secure
    /\ "ssl" \in Range(link_lib)
    /\ libs.cpp = "grpc++"

(***************************************************************************)
(* C5: profile directories                                                 *)
(***************************************************************************)

ProfileDirNames == {"Release", "Debug"}

\* C5: off Windows no search path has a profile directory and the
\* compression library is z, whatever PROFILE holds; on Windows every search
\* path ends in Release and the library is zlibstatic for PROFILE release or
\* bench, and every path ends in Debug and the library is zlibstaticd for any
\* other, unset or undecodable PROFILE.
C5_ProfileSuffix ==
    LinksEmitted =>
        /\ env["PROFILE"] \in ProfileValues
        /\ platform.os # "windows" =>
              /\ \A i \in 1..Len(link_search) :
                    Range(link_search[i]) \cap ProfileDirNames = {}
              /\ link_lib[1] = "z"
        /\ (platform.os = "windows" /\ env["PROFILE"] \in {"release", "bench"}) =>
              /\ \A i \in 1..Len(link_search) :
                    Last(link_search[i]) = "Release"
              /\ link_lib[1] = "zlibstatic"
        /\ (platform.os = "windows" /\ env["PROFILE"] \notin {"release", "bench"}) =>
              /\ \A i \in 1..Len(link_search) : Last(link_search[i]) = "Debug"
              /\ link_lib[1] = "zlibstaticd"

\* The link lines of a Windows build under PROFILE=bench.
C5_Witness ==
    /\ LinksEmitted
    /\ platform.os = "windows"
    /\ env["PROFILE"] = "bench"
    /\ link_lib[1] = "zlibstatic"

(***************************************************************************)
(* C6: order of the static libraries                                       *)
(***************************************************************************)

ZlibNames == {"z", "zlibstatic", "zlibstaticd"}
CoreName == IF secure THEN "grpc" ELSE "grpc_unsecure"
CppName == IF secure THEN "grpc++" ELSE "grpc++_unsecure"

\* (dependent, dependency) pairs among the static libraries.
DependsOn ==
    { <<CppName, CoreName>>, <<CoreName, "gpr">>, <<CoreName, "cares">>,
      <<CoreName, "address_sorting">>, <<CoreName, link_lib[1]>>,
      <<CoreName, "ssl">>, <<CoreName, "crypto">>, <<"ssl", "crypto">> }

\* C6 as stated: every dependent library is listed before each library it
\* depends on.
C6_DependentsFirst ==
    LinksEmitted =>
        /\ link_lib[1] \in ZlibNames
        /\ \A d \in DependsOn :
              (d[1] \in Range(link_lib) /\ d[2] \in Range(link_lib))
              => IndexOf(d[1], link_lib) < IndexOf(d[2], link_lib)

\* C6 amended: the static libraries are listed in the fixed order compression
\* library, cares, gpr, address_sorting, core library, C++ library and, when
\* secure, ssl then crypto: the core library comes after the compression
\* library, cares, gpr and address_sorting and before the C++ library that
\* depends on it; only ssl and crypto come after their dependents, ssl before
\* crypto.
C6_FixedOrder ==
    LinksEmitted =>
        /\ Len(link_lib) = (IF secure THEN 8 ELSE 6)
        /\ link_lib[1] \in ZlibNames
        /\ link_lib[2] = "cares"
        /\ link_lib[3] = "gpr"
        /\ link_lib[4] = "address_sorting"
        /\ link_lib[5] = CoreName
        /\ link_lib[6] = CppName
        /\ secure => link_lib[7] = "ssl" /\ link_lib[8] = "crypto"

\* The link-lib lines of a secure build: the core library is listed ahead of
\* the C++ library.
C6_Witness ==
    /\ LinksEmitted
    /\ secure
    /\ IndexOf("grpc", link_lib) < IndexOf("grpc++", link_lib)
    /\ IndexOf("ssl", link_lib) < IndexOf("crypto", link_lib)

(***************************************************************************)
(* C7: search directories                                                  *)
(***************************************************************************)

\* C7 as stated: after the primary build directory there is one search path
\* for each third-party directory: compression, DNS resolution, crypto, its
\* SSL layer, and address sorting.
C7_OnePathPerDependency ==
    LinksEmitted =>
        /\ SubSeq(link_search[1], 1, 2) = <<"dst", "build">>
        /\ \A d \in {"zlib", "cares", "crypto", "ssl", "address_sorting"} :
              \E i \in 2..Len(link_search) : d \in Range(link_search[i])

\* C7 amended: after the primary build directory there are exactly four
\* secondary search paths, in this order: cares/cares/lib, zlib,
\* boringssl/ssl and boringssl/crypto under third_party, each with the
\* primary path's profile suffix; address_sorting has no search path of its
\* own.
C7_FourSecondaryPaths ==
    LinksEmitted =>
        LET primary == link_search[1]
            sfx == SubSeq(primary, 3, Len(primary))
            tp == <<"dst", "build", "third_party">>
        IN /\ SubSeq(primary, 1, 2) = <<"dst", "build">>
           /\ Len(sfx) = (IF platform.os = "windows" THEN 1 ELSE 0)
           /\ Len(link_search) = 5
           /\ link_search[2] = tp \o <<"cares", "cares", "lib">> \o sfx
           /\ link_search[3] = tp \o <<"zlib">> \o sfx
           /\ link_search[4] = tp \o <<"boringssl", "ssl">> \o sfx
           /\ link_search[5] = tp \o <<"boringssl", "crypto">> \o sfx
           /\ \A i \in 1..Len(link_search) :
                 "address_sorting" \notin Range(link_search[i])

\* The search paths of a Windows release build.
C7_Witness ==
    /\ LinksEmitted
    /\ platform.os = "windows"
    /\ link_search[1] = <<"dst", "build", "Release">>
    /\ Len(link_search) = 5

====
